---- MODULE Spec2Model ----
(***************************************************************************)
(* A model of the two scripts of the DASS-21 simulation repository:        *)
(*   scripts/dass21_data_simulation.py  (the Simulator)                    *)
(*   scripts/simulation_checking.py     (the Aggregator)                   *)
(*                                                                         *)
(* Spec     : NumRuns independent Simulator runs, one after the other,     *)
(*            each a fresh process that seeds the generator, runs the      *)
(*            generation loop item by item and writes its CSV file.        *)
(* SpecAgg  : one Aggregator run on an input file drawn from a bounded     *)
(*            set of files (absent, lacking a column, or a table).         *)
(*                                                                         *)
(* Numbers with a fractional part are kept exact: probabilities and the    *)
(* effect size in tenths, means and differences in hundredths.             *)
(***************************************************************************)
EXTENDS Integers, Sequences, FiniteSets, TLC

VARIABLES
    \* ---- Simulator ----
    run,          \* which of the independent runs is executing
    alg,          \* the pseudo-random algorithm of the platform
    rng,          \* the generator's state
    ndraws,       \* how many values this run has drawn from the generator
    pc,           \* position of the Simulator in its script
    gi,           \* index of `group` in groups
    subject_id,   \* loop variable of line 27
    ti,           \* index of `time` in timepoints
    qi,           \* number of questions of the current row already filled
    base_score,   \* the last draw (line 36)
    row,          \* the dict being filled (line 30)
    data,         \* the list of finished rows (line 24)
    files,        \* files[r]: the CSV file run r wrote
    \* ---- Aggregator ----
    apc,          \* position of the Aggregator in its script
    input,        \* the file system entry data/simulated_dass21_full.csv
    df,           \* the loaded table
    summary,      \* group-wise means, in hundredths
    change,       \* differences per timepoint, in hundredths
    printed,      \* what has been printed so far
    error         \* the exception that ended the run, or "none"

simVars == <<run, alg, rng, ndraws, pc, gi, subject_id, ti, qi, base_score,
             row, data, files>>
aggVars == <<apc, input, df, summary, change, printed, error>>
vars == <<simVars, aggVars>>

----------------------------------------------------------------------------
(* Bounds of the model *)

NumRuns == 2      \* independent Simulator runs compared
NumAlgs == 3      \* pseudo-random algorithms considered
RngMod == 100     \* size of the generator's state space
MaxPerCell == 3   \* observations per (group, timepoint) in an Aggregator input

----------------------------------------------------------------------------
(* Generic helpers *)

Min(a, b) == IF a < b THEN a ELSE b
Max(a, b) == IF a > b THEN a ELSE b

RECURSIVE SumSeq(_)
SumSeq(s) == IF s = <<>> THEN 0 ELSE Head(s) + SumSeq(Tail(s))

\* Nearest integer to num/den (den > 0), ties to the even neighbour: the
\* rule of np.round and of DataFrame.round.
RoundHalfEven(num, den) ==
    LET f == num \div den
        r == num - f * den
    IN  IF 2 * r < den THEN f
        ELSE IF 2 * r > den THEN f + 1
        ELSE IF f % 2 = 0 THEN f ELSE f + 1

----------------------------------------------------------------------------
(* Simulator: parameters (lines 6-17) *)

seed == 42
n_per_group == 20
timepoints == <<"baseline", "3_months", "6_months", "9_months", "12_months">>
groups == <<"intervention", "control">>
questions == [i \in 1..21 |-> "Q" \o ToString(i)]

\* subscale lists with one item mistyped
AnxietyMistyped == <<"Q1", "Q4", "Q7", "Q9", "Q15", "Q19", "Q20">>
StressMistyped == <<"Q2", "Q6", "Q8", "Q11", "Q12", "Q14", "Q18">>

dass_anxiety == <<"Q2", "Q4", "Q7", "Q9", "Q15", "Q19", "Q20">>
dass_depression == <<"Q3", "Q5", "Q10", "Q13", "Q16", "Q17", "Q21">>
dass_stress == <<"Q1", "Q6", "Q8", "Q11", "Q12", "Q14", "Q18">>

\* effect_size=0.2 of line 20, in tenths
effect_size == 2

\* np.clip(x, lo, hi)
Clip(x, lo, hi) == Max(lo, Min(x, hi))

\* the product cut to an integer without rounding it first
TruncatedProduct(score) == (score * (10 - effect_size)) \div 10

\* np.round(scores * (1 - effect_size)) for one score; the product is
\* score * (10 - effect_size) / 10
RoundedProduct(score) == RoundHalfEven(score * (10 - effect_size), 10)

\* line 21
apply_treatment_effect(score) == Clip(RoundedProduct(score), 0, 3)

----------------------------------------------------------------------------
(* Simulator: the pseudo-random generator (numpy's, lines 6 and 36) *)

\* The algorithms a platform may implement: full-period linear congruential
\* generators over 0..RngMod-1.
Algs == { [a |-> 20 * k + 1, c |-> 10 * k + 3] : k \in 1..NumAlgs }

\* a generator seeded from the clock: the state differs from run to run
SeedFromClock(s) == { s % RngMod, (s + 1) % RngMod }

\* np.random.seed(s): the states the generator may be in afterwards
SeedRng(s) == { s % RngMod }

RngNext(al, x) == (al.a * x + al.c) % RngMod

\* the uniform variate in [0,1) the state yields, in tenths (floor)
Uniform(x) == (x * 10) \div RngMod

\* np.random.choice(a, p=p) on the uniform variate u: the first category
\* whose cumulative probability exceeds u. p is in tenths.
Choice(a, p, u) ==
    LET Cdf(k) == SumSeq(SubSeq(p, 1, k))
        idx == CHOOSE k \in 1..Len(a) :
                  /\ u < Cdf(k)
                  /\ \A j \in 1..(k - 1) : ~(u < Cdf(j))
    IN  a[idx]

\* a generator whose categories are the 1-based answer codes
DrawScoreOneBased(u) == Choice(<<1, 2, 3, 4>>, <<1, 2, 4, 3>>, u)

\* line 36: np.random.choice([0, 1, 2, 3], p=[0.1, 0.2, 0.4, 0.3])
DrawScore(u) == Choice(<<0, 1, 2, 3>>, <<1, 2, 4, 3>>, u)

----------------------------------------------------------------------------
(* Simulator: subject ids (line 28) *)

Lowers == <<"a","b","c","d","e","f","g","h","i","j","k","l","m",
            "n","o","p","q","r","s","t","u","v","w","x","y","z">>
Uppers == <<"A","B","C","D","E","F","G","H","I","J","K","L","M",
            "N","O","P","Q","R","S","T","U","V","W","X","Y","Z">>

\* str.upper() of a one-character string
Upper(ch) ==
    IF \E i \in 1..Len(Lowers) : Lowers[i] = ch
    THEN Uppers[CHOOSE i \in 1..Len(Lowers) : Lowers[i] = ch]
    ELSE ch

\* f"{n:02d}"
Format02d(n) == IF n < 10 THEN "0" \o ToString(n) ELSE ToString(n)

\* an id without the group letter
IdWithoutGroup(group, sid) == Format02d(sid)

\* f"{group[:1].upper()}{subject_id:02d}"
FullId(group, sid) == Upper(SubSeq(group, 1, 1)) \o Format02d(sid)

----------------------------------------------------------------------------
(* Simulator: rows and the CSV file (lines 30-55) *)

\* the effect applied at baseline too
TreatedAtAnyTime(group, time) == group = "intervention"

\* line 37
Treated(group, time) == group = "intervention" /\ time # "baseline"

\* lines 37-40: the value stored for a draw
StoredScore(group, time, score) ==
    IF Treated(group, time) THEN apply_treatment_effect(score) ELSE score

\* sum([row[q] for q in items])
SubscaleSum(r, items) == SumSeq([i \in 1..Len(items) |-> r[items[i]]])

\* the DataFrame's columns: the keys of a row in insertion order
Columns ==
    <<"id", "group", "timepoint">> \o questions
        \o <<"DASS_Anxiety", "DASS_Depression", "DASS_Stress">>

\* a cell as to_csv writes it: the text columns as they are, the integer
\* columns in decimal
CsvField(col, v) ==
    IF col \in {"id", "group", "timepoint"} THEN v ELSE ToString(v)

\* df.to_csv(csv_path, index=False): the header line, then one line per row
ToCsv(rows) ==
    <<Columns>> \o
    [i \in 1..Len(rows) |-> [j \in 1..Len(Columns) |-> CsvField(Columns[j], rows[i][Columns[j]])]]

----------------------------------------------------------------------------
(* Simulator: the script, step by step *)

NoRow == <<>>

AggIdle ==
    /\ apc = "idle"
    /\ input = [exists |-> FALSE, columns |-> {}, rows |-> <<>>]
    /\ df = <<>>
    /\ summary = <<>>
    /\ change = <<>>
    /\ printed = <<>>
    /\ error = "none"

Init ==
    /\ run = 1
    /\ alg \in Algs
    /\ rng = 0
    /\ ndraws = 0
    /\ pc = "seed"
    /\ gi = 1
    /\ subject_id = 1
    /\ ti = 1
    /\ qi = 0
    /\ base_score = 0
    /\ row = NoRow
    /\ data = <<>>
    /\ files = [r \in 1..NumRuns |-> <<>>]
    /\ AggIdle

\* line 6, and line 24
SetSeed ==
    /\ pc = "seed"
    /\ rng' \in SeedRng(seed)
    /\ ndraws' = 0
    /\ data' = <<>>
    /\ pc' = "row"
    /\ UNCHANGED <<run, alg, gi, subject_id, ti, qi, base_score, row, files>>
    /\ UNCHANGED aggVars

\* lines 26-34: the loop headers have fixed group, subject_id and time
NewRow ==
    /\ pc = "row"
    /\ row' = [k \in {"id", "group", "timepoint"} |->
                 CASE k = "id" -> FullId(groups[gi], subject_id)
                   [] k = "group" -> groups[gi]
                   [] k = "timepoint" -> timepoints[ti]]
    /\ qi' = 0
    /\ pc' = "item"
    /\ UNCHANGED <<run, alg, rng, ndraws, gi, subject_id, ti, base_score, data, files>>
    /\ UNCHANGED aggVars

\* lines 35-40: one iteration of the loop over questions
DrawItem ==
    /\ pc = "item"
    /\ qi < Len(questions)
    /\ LET d == DrawScore(Uniform(rng))
           q == questions[qi + 1]
       IN  /\ base_score' = d
           /\ row' = (q :> StoredScore(groups[gi], timepoints[ti], d)) @@ row
    /\ rng' = RngNext(alg, rng)
    /\ ndraws' = ndraws + 1
    /\ qi' = qi + 1
    /\ pc' = IF qi + 1 = Len(questions) THEN "subscales" ELSE "item"
    /\ UNCHANGED <<run, alg, gi, subject_id, ti, data, files>>
    /\ UNCHANGED aggVars

\* lines 42-46, and the step of the three for loops to the next row
FinishRow ==
    /\ pc = "subscales"
    /\ LET r1 == ("DASS_Anxiety" :> SubscaleSum(row, dass_anxiety)) @@ row
           r2 == ("DASS_Depression" :> SubscaleSum(r1, dass_depression)) @@ r1
           r3 == ("DASS_Stress" :> SubscaleSum(r2, dass_stress)) @@ r2
       IN  /\ row' = r3
           /\ data' = Append(data, r3)
    /\ IF ti < Len(timepoints)
       THEN /\ ti' = ti + 1
            /\ UNCHANGED <<gi, subject_id>>
            /\ pc' = "row"
       ELSE IF subject_id < n_per_group
       THEN /\ ti' = 1
            /\ subject_id' = subject_id + 1
            /\ UNCHANGED gi
            /\ pc' = "row"
       ELSE IF gi < Len(groups)
       THEN /\ ti' = 1
            /\ subject_id' = 1
            /\ gi' = gi + 1
            /\ pc' = "row"
       ELSE /\ UNCHANGED <<gi, subject_id, ti>>
            /\ pc' = "save"
    /\ UNCHANGED <<run, alg, rng, ndraws, qi, base_score, files>>
    /\ UNCHANGED aggVars

\* lines 48-55
SaveCsv ==
    /\ pc = "save"
    /\ files' = [files EXCEPT ![run] = ToCsv(data)]
    /\ pc' = "exit"
    /\ UNCHANGED <<run, alg, rng, ndraws, gi, subject_id, ti, qi, base_score, row, data>>
    /\ UNCHANGED aggVars

\* the next independent run: a fresh process, nothing carried over but the
\* platform and the files on disk
NextRun ==
    /\ pc = "exit"
    /\ run < NumRuns
    /\ run' = run + 1
    /\ rng' = 0
    /\ ndraws' = 0
    /\ pc' = "seed"
    /\ gi' = 1
    /\ subject_id' = 1
    /\ ti' = 1
    /\ qi' = 0
    /\ base_score' = 0
    /\ row' = NoRow
    /\ data' = <<>>
    /\ UNCHANGED <<alg, files>>
    /\ UNCHANGED aggVars

Next ==
    \/ SetSeed
    \/ NewRow
    \/ DrawItem
    \/ FinishRow
    \/ SaveCsv
    \/ NextRun

Spec == Init /\ [][Next]_vars

----------------------------------------------------------------------------
(* Aggregator: tables and arithmetic (simulation_checking.py) *)

Subscales == <<"DASS_Anxiety", "DASS_Depression", "DASS_Stress">>
GroupKeys == {"group", "timepoint"}
RequiredColumns == GroupKeys \cup { Subscales[i] : i \in 1..Len(Subscales) }

\* An entry of the unstacked table and of the difference table is {v} for
\* the number v (in hundredths) and NaN where there is no number.
NaN == {}
Num(v) == {v}
Val(e) == CHOOSE v \in e : TRUE

\* the outcome of opening a file that is taken to be there
ReadAlwaysOk(file) == "ok"

\* pd.read_csv(path), line 7
ReadOutcome(file) == IF file.exists THEN "ok" ELSE "FileNotFoundError"

RECURSIVE SelectRows(_, _, _)
\* the rows of one group at one timepoint, in file order
SelectRows(rows, g, t) ==
    IF rows = <<>> THEN <<>>
    ELSE LET r == Head(rows)
             rest == SelectRows(Tail(rows), g, t)
         IN  IF r["group"] = g /\ r["timepoint"] = t THEN <<r>> \o rest ELSE rest

\* the total of a column taken for its mean
GroupSum(rows, col) ==
    [num |-> SumSeq([i \in 1..Len(rows) |-> rows[i][col]]), den |-> 1]

\* .mean() of one column over the rows of a group, as a fraction
GroupMean(rows, col) ==
    [num |-> SumSeq([i \in 1..Len(rows) |-> rows[i][col]]), den |-> Len(rows)]

\* .round(2) of the fraction num/den, in hundredths
Round2(num, den) == RoundHalfEven(100 * num, den)

\* the index of the grouped table: the (group, timepoint) pairs with rows
GroupIndex(rows) == { <<rows[i]["group"], rows[i]["timepoint"]>> : i \in 1..Len(rows) }

\* lines 10-12: df.groupby(['group', 'timepoint'])[[...]].mean().round(2)
Summarise(rows) ==
    [k \in GroupIndex(rows) |->
        [c \in { Subscales[i] : i \in 1..Len(Subscales) } |->
            LET m == GroupMean(SelectRows(rows, k[1], k[2]), c)
            IN  Round2(m.num, m.den)]]

\* line 18: summary.unstack(level=0); a (column, group) pair is a column of
\* the result when the group occurs in the index, and a timepoint without
\* rows of that group holds NaN there
UnstackGroups(s) == { k[1] : k \in DOMAIN s }
UnstackTimes(s) == { k[2] : k \in DOMAIN s }
Unstacked(s, c, g, t) == IF <<g, t>> \in DOMAIN s THEN Num(s[<<g, t>>][c]) ELSE NaN

\* float subtraction of two entries of the unstacked table, in hundredths
Minus(a, b) == IF a = NaN \/ b = NaN THEN NaN ELSE Num(Val(a) - Val(b))

\* lines 21-25
Change(s) ==
    [t \in UnstackTimes(s) |->
        [c \in {"Anxiety", "Depression", "Stress"} |->
            LET col == CASE c = "Anxiety" -> "DASS_Anxiety"
                         [] c = "Depression" -> "DASS_Depression"
                         [] c = "Stress" -> "DASS_Stress"
            IN  Minus(Unstacked(s, col, "intervention", t),
                      Unstacked(s, col, "control", t))]]

\* line 28: change.round(2), on values in hundredths
RoundChange(ch) ==
    [t \in DOMAIN ch |->
        [c \in DOMAIN ch[t] |->
            IF ch[t][c] = NaN THEN NaN ELSE Num(Round2(Val(ch[t][c]), 100))]]

----------------------------------------------------------------------------
(* Aggregator: the input files considered *)

InputGroups == <<"intervention", "control">>
InputTimes == <<"baseline", "3_months">>

\* the subscale totals (Anxiety, Depression, Stress) an input row may carry
InputScores == << <<5, 0, 21>>, <<10, 7, 2>> >>

Cells == { <<g, t>> : g \in 1..Len(InputGroups), t \in 1..Len(InputTimes) }

\* how many rows of a cell carry the first and the second score triple
CellCounts ==
    { n \in (0..MaxPerCell) \X (0..MaxPerCell) : n[1] + n[2] <= MaxPerCell }

InputRow(g, t, k, cols) ==
    [c \in cols |->
        CASE c = "group" -> InputGroups[g]
          [] c = "timepoint" -> InputTimes[t]
          [] c = "DASS_Anxiety" -> InputScores[k][1]
          [] c = "DASS_Depression" -> InputScores[k][2]
          [] c = "DASS_Stress" -> InputScores[k][3]]

CellRows(g, t, n, cols) ==
    [i \in 1..(n[1] + n[2]) |-> InputRow(g, t, IF i <= n[1] THEN 1 ELSE 2, cols)]

\* the rows of a table with counts[cell] rows per cell, cell after cell
TableRows(counts, cols) ==
    CellRows(1, 1, counts[<<1, 1>>], cols) \o CellRows(1, 2, counts[<<1, 2>>], cols)
        \o CellRows(2, 1, counts[<<2, 1>>], cols) \o CellRows(2, 2, counts[<<2, 2>>], cols)

\* the header of a file: all required columns, or all but one
ColumnSets == {RequiredColumns} \cup { RequiredColumns \ {c} : c \in RequiredColumns }

InputFiles ==
    { [exists |-> FALSE, columns |-> {}, rows |-> <<>>] }
    \cup { [exists |-> TRUE, columns |-> cols, rows |-> TableRows(counts, cols)] :
              cols \in ColumnSets, counts \in [Cells -> CellCounts] }

----------------------------------------------------------------------------
(* Aggregator: the script, step by step *)

SimIdle ==
    /\ run = 1
    /\ alg = [a |-> 1, c |-> 0]
    /\ rng = 0
    /\ ndraws = 0
    /\ pc = "off"
    /\ gi = 1
    /\ subject_id = 1
    /\ ti = 1
    /\ qi = 0
    /\ base_score = 0
    /\ row = NoRow
    /\ data = <<>>
    /\ files = [r \in 1..NumRuns |-> <<>>]

InitAgg ==
    /\ SimIdle
    /\ apc = "read"
    /\ input \in InputFiles
    /\ df = <<>>
    /\ summary = <<>>
    /\ change = <<>>
    /\ printed = <<>>
    /\ error = "none"

\* line 7
ReadCsv ==
    /\ apc = "read"
    /\ IF ReadOutcome(input) = "ok"
       THEN /\ df' = [columns |-> input.columns, rows |-> input.rows]
            /\ apc' = "groupby"
            /\ UNCHANGED error
       ELSE /\ error' = ReadOutcome(input)
            /\ apc' = "error"
            /\ UNCHANGED df
    /\ UNCHANGED <<input, summary, change, printed>>
    /\ UNCHANGED simVars

\* lines 10-12
GroupMeans ==
    /\ apc = "groupby"
    /\ IF RequiredColumns \subseteq df.columns
       THEN /\ summary' = Summarise(df.rows)
            /\ apc' = "print_summary"
            /\ UNCHANGED error
       ELSE /\ error' = "KeyError"
            /\ apc' = "error"
            /\ UNCHANGED summary
    /\ UNCHANGED <<input, df, change, printed>>
    /\ UNCHANGED simVars

\* lines 14-15
PrintSummary ==
    /\ apc = "print_summary"
    /\ printed' = Append(printed, summary)
    /\ apc' = "diff"
    /\ UNCHANGED <<input, df, summary, change, error>>
    /\ UNCHANGED simVars

\* lines 18-25: selecting the column of a group that is not in the table
\* raises KeyError
Diff ==
    /\ apc = "diff"
    /\ IF {"intervention", "control"} \subseteq UnstackGroups(summary)
       THEN /\ change' = Change(summary)
            /\ apc' = "print_change"
            /\ UNCHANGED error
       ELSE /\ error' = "KeyError"
            /\ apc' = "error"
            /\ UNCHANGED change
    /\ UNCHANGED <<input, df, summary, printed>>
    /\ UNCHANGED simVars

\* lines 27-28
PrintChange ==
    /\ apc = "print_change"
    /\ printed' = Append(printed, RoundChange(change))
    /\ apc' = "done"
    /\ UNCHANGED <<input, df, summary, change, error>>
    /\ UNCHANGED simVars

NextAgg ==
    \/ ReadCsv
    \/ GroupMeans
    \/ PrintSummary
    \/ Diff
    \/ PrintChange

SpecAgg == InitAgg /\ [][NextAgg]_vars

----------------------------------------------------------------------------
(* Properties of the Aggregator *)

Abs(x) == IF x < 0 THEN -x ELSE x

\* v hundredths is num/den rounded to 2 decimal places: no multiple of 0.01
\* is nearer to num/den
IsRounded2(v, num, den) == 2 * Abs(v * den - 100 * num) <= den

\* the positions in the loaded table of the observations of group g at t
RowsAt(g, t) ==
    { i \in 1..Len(df.rows) : df.rows[i]["group"] = g /\ df.rows[i]["timepoint"] = t }

RECURSIVE Total(_, _)
\* the sum of column col over the rows at the positions in S
Total(S, col) ==
    IF S = {} THEN 0
    ELSE LET i == CHOOSE j \in S : TRUE
         IN  df.rows[i][col] + Total(S \ {i}, col)

ShortName(col) ==
    CASE col = "DASS_Anxiety" -> "Anxiety"
      [] col = "DASS_Depression" -> "Depression"
      [] col = "DASS_Stress" -> "Stress"

SubscaleNames == {"DASS_Anxiety", "DASS_Depression", "DASS_Stress"}

\* the minimal input of the scenario: one observation per group at one
\* timepoint, intervention Anxiety 5 and control Anxiety 10
Scenario(t) ==
    /\ Len(df.rows) = 2
    /\ \E i, j \in 1..2 :
          /\ df.rows[i]["group"] = "intervention"
          /\ df.rows[i]["timepoint"] = t
          /\ df.rows[i]["DASS_Anxiety"] = 5
          /\ df.rows[j]["group"] = "control"
          /\ df.rows[j]["timepoint"] = t
          /\ df.rows[j]["DASS_Anxiety"] = 10

\* C6: for every timepoint at which both groups have observations, the
\* reported difference of each subscale is (intervention mean - control
\* mean) of the subscale totals, rounded to 2 decimal places.
C6_DifferenceOfMeans ==
    apc = "done" =>
        \A t \in { df.rows[i]["timepoint"] : i \in 1..Len(df.rows) } :
            LET I == RowsAt("intervention", t)
                C == RowsAt("control", t)
            IN  (I # {} /\ C # {}) =>
                    \A col \in SubscaleNames :
                        \E v \in printed[2][t][ShortName(col)] :
                            IsRounded2(v,
                                       Total(I, col) * Cardinality(C)
                                          - Total(C, col) * Cardinality(I),
                                       Cardinality(I) * Cardinality(C))

\* C7: the first table has one line for each (group, timepoint) pair with
\* observations and no other; each entry is the mean of the subscale total
\* over the observations of that group at that timepoint, rounded to 2
\* decimal places. In the scenario it reports 5.00 and 10.00, and the second
\* table reports -5.00.
C7_GroupMeans ==
    Len(printed) >= 1 =>
        /\ DOMAIN printed[1]
              = { <<df.rows[i]["group"], df.rows[i]["timepoint"]>> : i \in 1..Len(df.rows) }
        /\ \A k \in DOMAIN printed[1] : \A col \in SubscaleNames :
              IsRounded2(printed[1][k][col],
                         Total(RowsAt(k[1], k[2]), col),
                         Cardinality(RowsAt(k[1], k[2])))
        /\ \A t \in {"baseline", "3_months"} :
              Scenario(t) =>
                  /\ printed[1][<<"intervention", t>>]["DASS_Anxiety"] = 500
                  /\ printed[1][<<"control", t>>]["DASS_Anxiety"] = 1000
                  /\ apc = "done" => printed[2][t]["Anxiety"] = {-500}

C7_Witness ==
    /\ apc = "done"
    /\ Scenario("baseline")
    /\ printed[1][<<"intervention", "baseline">>]["DASS_Anxiety"] = 500
    /\ printed[2]["baseline"]["Anxiety"] = {-500}

\* C8: when the input file is absent or lacks one of the columns group,
\* timepoint, DASS_Anxiety, DASS_Depression, DASS_Stress, the run reports
\* no table and computes none: it is still before the failing statement, or
\* it has stopped with the error of that statement.
C8_FailsCleanly ==
    LET absent == ~input.exists
        lacking == input.exists
                     /\ ~({"group", "timepoint", "DASS_Anxiety",
                           "DASS_Depression", "DASS_Stress"} \subseteq input.columns)
    IN  (absent \/ lacking) =>
            /\ printed = <<>>
            /\ summary = <<>>
            /\ change = <<>>
            /\ \/ apc = "read" /\ error = "none" /\ ENABLED ReadCsv
               \/ apc = "groupby" /\ lacking /\ error = "none" /\ ENABLED GroupMeans
               \/ apc = "error" /\ absent /\ error = "FileNotFoundError"
               \/ apc = "error" /\ lacking /\ error = "KeyError"

C8_Witness ==
    /\ apc = "error"
    /\ error = "KeyError"
    /\ input.exists
    /\ "DASS_Stress" \notin input.columns
    /\ Len(input.rows) = 3

----------------------------------------------------------------------------
(* Properties of the Simulator *)

\* the row being filled has its group and timepoint, and at least one item
InRow == pc \in {"item", "subscales"} /\ qi >= 1
LastStored == row[questions[qi]]
RowTreated(r) == r["group"] = "intervention" /\ r["timepoint"] # "baseline"
QSet == { "Q" \o ToString(i) : i \in 1..21 }

\* The finished rows a state is examined for. A row is appended once and
\* never changed, so every row is examined in the state that appended it,
\* and the whole dataset again once the loop has finished.
Finished ==
    IF pc \in {"save", "exit"} THEN 1..Len(data)
    ELSE IF Len(data) > 0 THEN {Len(data)} ELSE {}

\* C1: the item just stored is the draw d itself in a control row and in an
\* intervention row at baseline; in an intervention row after baseline it is
\* the integer nearest to d * (1 - 0.2) = 8d/10, clamped into [0,3].
C1_StoredScore ==
    InRow =>
        /\ base_score \in 0..3
        /\ IF row["group"] = "intervention" /\ row["timepoint"] # "baseline"
           THEN \E r \in -1..4 :
                   /\ 2 * (10 * r - 8 * base_score) <= 10
                   /\ 2 * (8 * base_score - 10 * r) <= 10
                   /\ LastStored = (IF r < 0 THEN 0 ELSE IF r > 3 THEN 3 ELSE r)
           ELSE LastStored = base_score

C1_Witness ==
    /\ InRow
    /\ row["group"] = "intervention"
    /\ row["timepoint"] = "9_months"
    /\ base_score = 3
    /\ LastStored = 2

\* C2: every item score, in the row being filled and in every finished row,
\* is an integer between 0 and 3.
C2_ItemRange ==
    /\ pc \in {"item", "subscales"} =>
          \A k \in 1..qi : row[questions[k]] \in 0..3
    /\ \A i \in Finished : \A q \in QSet : data[i][q] \in 0..3

C2_Witness ==
    /\ pc = "exit"
    /\ \E i \in 1..Len(data) : data[i]["group"] = "control" /\ data[i]["Q21"] = 3
    /\ \E i \in 1..Len(data) : RowTreated(data[i]) /\ data[i]["Q1"] = 0

\* C3: in every finished row each subscale total is the sum of the row's
\* seven items of that subscale, and lies between 0 and 21.
C3_SubscaleTotals ==
    \A i \in Finished :
        LET r == data[i] IN
        /\ r["DASS_Anxiety"] = r["Q2"] + r["Q4"] + r["Q7"] + r["Q9"]
                                + r["Q15"] + r["Q19"] + r["Q20"]
        /\ r["DASS_Depression"] = r["Q3"] + r["Q5"] + r["Q10"] + r["Q13"]
                                   + r["Q16"] + r["Q17"] + r["Q21"]
        /\ r["DASS_Stress"] = r["Q1"] + r["Q6"] + r["Q8"] + r["Q11"]
                               + r["Q12"] + r["Q14"] + r["Q18"]
        /\ r["DASS_Anxiety"] \in 0..21
        /\ r["DASS_Depression"] \in 0..21
        /\ r["DASS_Stress"] \in 0..21

C3_Witness ==
    \E i \in 1..Len(data) :
        /\ data[i]["DASS_Anxiety"] > data[i]["DASS_Depression"]
        /\ data[i]["DASS_Depression"] > data[i]["DASS_Stress"]
        /\ data[i]["DASS_Stress"] > 0

\* C4: when the generation loop has finished the dataset has exactly 200
\* rows, no two rows share (id, timepoint), and every subject id has exactly
\* one row for each of the five timepoints.
C4_BalancedPanel ==
    pc \in {"save", "exit"} =>
        /\ Len(data) = 200
        /\ \A i, j \in 1..Len(data) :
              (data[i]["id"] = data[j]["id"]
                 /\ data[i]["timepoint"] = data[j]["timepoint"]) => i = j
        /\ \A i \in 1..Len(data) :
              \A t \in {"baseline", "3_months", "6_months", "9_months", "12_months"} :
                 Cardinality({ j \in 1..Len(data) :
                                  /\ data[j]["id"] = data[i]["id"]
                                  /\ data[j]["timepoint"] = t }) = 1
        /\ Cardinality({ data[i]["id"] : i \in 1..Len(data) }) = 40

C4_Witness ==
    /\ pc = "exit"
    /\ data[1]["id"] = "I01"
    /\ data[Len(data)]["id"] = "C20"
    /\ data[Len(data)]["timepoint"] = "12_months"

\* C5: every run draws once per item in the order group, subject, timepoint,
\* item, and any two runs that have written their file wrote the same file;
\* a later run's finished rows are the lines an earlier run wrote.
C5_SameOutput ==
    /\ pc \in {"item", "subscales"} =>
          ndraws = (((gi - 1) * 20 + (subject_id - 1)) * 5 + (ti - 1)) * 21 + qi
    /\ \A r1, r2 \in 1..NumRuns :
          (files[r1] # <<>> /\ files[r2] # <<>>) => files[r1] = files[r2]
    /\ \A r \in 1..NumRuns :
          (r < run /\ Len(data) > 0) =>
              \A c \in {"id", "timepoint", "Q1", "DASS_Stress"} :
                  \E j \in 1..Len(Columns) :
                      /\ files[r][1][j] = c
                      /\ files[r][Len(data) + 1][j]
                            = (IF c \in {"id", "timepoint"}
                               THEN data[Len(data)][c]
                               ELSE ToString(data[Len(data)][c]))

C5_Witness ==
    /\ run = 2
    /\ pc = "exit"
    /\ Len(files[1]) = 201
    /\ Len(files[2]) = 201
    /\ \E i \in 2..201 : files[2][i][4] # files[2][2][4]

\* C9: the three subscales' item sets are pairwise disjoint, have 7 items
\* each and together are exactly Q1..Q21; so in every finished row the three
\* totals add up to the sum of all 21 items.
C9_SubscalesPartition ==
    LET A == { dass_anxiety[i] : i \in 1..Len(dass_anxiety) }
        D == { dass_depression[i] : i \in 1..Len(dass_depression) }
        S == { dass_stress[i] : i \in 1..Len(dass_stress) }
    IN  /\ A \cap D = {} /\ A \cap S = {} /\ D \cap S = {}
        /\ Cardinality(A) = 7 /\ Cardinality(D) = 7 /\ Cardinality(S) = 7
        /\ A \cup D \cup S = QSet
        /\ \A i \in Finished :
              data[i]["DASS_Anxiety"] + data[i]["DASS_Depression"]
                  + data[i]["DASS_Stress"]
                = SumSeq([k \in 1..21 |-> data[i]["Q" \o ToString(k)]])

C9_Witness ==
    \E i \in 1..Len(data) :
        /\ data[i]["Q1"] = 3
        /\ data[i]["Q2"] = 0
        /\ data[i]["Q3"] = 2

\* C10: with effect size 0.2 the attenuation stores 0, 1 and 2 unchanged and
\* turns 3 into 2; the stored value is the nearest integer to 8d/10 with no
\* tie and without help from the clamp. Every item of an intervention row
\* after baseline is thus 0, 1 or 2 and every subscale total at most 14.
C10_OnlyThreeChanges ==
    /\ (InRow /\ RowTreated(row)) =>
          /\ LastStored <= base_score
          /\ base_score \in 0..2 => LastStored = base_score
          /\ LastStored # base_score => (base_score = 3 /\ LastStored = 2)
          /\ 2 * (10 * LastStored - 8 * base_score) < 10
          /\ 2 * (8 * base_score - 10 * LastStored) < 10
          /\ (8 * base_score) % 10 # 5
    /\ \A i \in Finished :
          RowTreated(data[i]) =>
              /\ \A q \in QSet : data[i][q] \in 0..2
              /\ data[i]["DASS_Anxiety"] <= 14
              /\ data[i]["DASS_Depression"] <= 14
              /\ data[i]["DASS_Stress"] <= 14

\* the finished dataset has a 3 in a control row and in an intervention row
\* at baseline, and intervention rows after baseline holding a 2
C10_Witness ==
    /\ pc = "exit"
    /\ \E i \in 1..Len(data) : \E q \in QSet :
          data[i]["group"] = "control" /\ data[i][q] = 3
    /\ \E i \in 1..Len(data) : \E q \in QSet :
          /\ data[i]["group"] = "intervention"
          /\ data[i]["timepoint"] = "baseline"
          /\ data[i][q] = 3
    /\ \E i \in 1..Len(data) : \E q \in QSet :
          RowTreated(data[i]) /\ data[i][q] = 2

====
